---- MODULE Spec2Model ----
(***************************************************************************)
(* A model of the dpc-retriever pipeline: retrieve_product,                *)
(* process_product and store_product of module_retriever.py, the product   *)
(* queries of dpc/DPCProduct.py, the path helpers of utils/filesystem.py,  *)
(* args_validation of module_args.py and main_python of main.py.           *)
(*                                                                         *)
(* The specifications of the module:                                       *)
(*   SpecStore    concurrent store_product calls of two processes          *)
(*   SpecPayload  store_product of one process, shapefiles included        *)
(*   SpecProduct  the queries of a product descriptor                      *)
(*   SpecRetrieve retrieve_product against a nondeterministic upstream     *)
(*   SpecProcess  process_product applied to bounded inputs                *)
(*   SpecMain     main_python, stage by stage                              *)
(***************************************************************************)
EXTENDS Integers, Sequences, FiniteSets, TLC

VARIABLES
    \* ---- store_product (SpecStore) ----
    st,              \* per process: the frame of its store_product call
    remote_data,     \* the payload objects of the bucket (a set of URIs)
    remote_catalog,  \* the catalog objects of the bucket: URI -> sequence of records
    local_files,     \* the scratch files of _PACKAGE_TEMP_DIR: name -> sequence of records
    locks,           \* the FileLock files currently held
    now,             \* the host clock tempfilename() reads (its %f microseconds)
    calls,           \* store_product calls started so far
    \* ---- retrieve_product (SpecRetrieve) ----
    rp,
    \* ---- process_product (SpecProcess) ----
    pp,
    \* ---- main_python (SpecMain) ----
    mp,
    \* ---- the product queries of DPCProduct (SpecProduct) ----
    pq,
    \* ---- DPCRetrieverProcessor.execute (SpecExecute) ----
    xp

vars == <<st, remote_data, remote_catalog, local_files, locks, now, calls, rp, pp, mp, pq, xp>>

storeVars == <<st, remote_data, remote_catalog, local_files, locks, now, calls>>

None == "None"

(***************************************************************************)
(* Bounds of the model.                                                    *)
(***************************************************************************)
MaxCalls == 2

\* the largest max_retry retrieve_product is called with
MaxRetry == 3

\* uploads of one payload that may fail in the same call (SpecPayload)
MaxFailures == 2

\* store_product calls of the single process of SpecPayload
MaxPayloadCalls == 1

\* the instants the clock is read at: 0 .. MaxInstant minutes
MaxInstant == 130

Procs == {1, 2}

(***************************************************************************)
(* utils/filesystem.py.  A pathname or URI is [scheme, dir, stem, ext]:    *)
(* scheme is "" for a local path and "s3://" for a bucket URI, dir is the  *)
(* sequence of its directory segments, ext the text after the last dot     *)
(* ("" when there is none).  An extension argument is a string with or     *)
(* without its leading dot.                                                *)
(***************************************************************************)
Undot == (".tif" :> "tif") @@ (".tiff" :> "tiff") @@ (".geotiff" :> "geotiff")
         @@ (".nc" :> "nc") @@ (".netcdf" :> "netcdf") @@ (".shp" :> "shp")
         @@ (".geojson" :> "geojson") @@ (".json" :> "json") @@ (".xyz" :> "xyz")
         @@ (".shx" :> "shx") @@ (".dbf" :> "dbf") @@ (".prj" :> "prj")
         @@ (".cpg" :> "cpg") @@ (".lock" :> "lock") @@ (".zip" :> "zip")

\* str.lstrip("."): the extension without its leading dot
lstrip(e) == IF e \in DOMAIN Undot THEN Undot[e] ELSE e

\* os.path.normpath collapses the "//" of a URI scheme; a local path is left alone
normpath(p) == IF p.scheme = "s3://" THEN [p EXCEPT !.scheme = "s3:/"] ELSE p

justext(p) == p.ext

justfname(p) == [stem |-> p.stem, ext |-> p.ext]

forceext(p, newext) == normpath([p EXCEPT !.ext = lstrip(newext)])

\* tempfilename(suffix='.json'): the clock's reading names the scratch file
tempfilename(clock, suffix) ==
    [scheme |-> "", dir |-> <<"tmp", "dpc-retriever">>, stem |-> <<ToString(clock)>>,
     ext |-> lstrip(suffix)]

(***************************************************************************)
(* utils/module_s3.py is not part of the sources: hive_path, s3_upload and *)
(* s3_download are modelled from what the specification says of them.      *)
(***************************************************************************)
\* one path segment per entry of the partition dictionary, in its order
hive_path(year, month, day, product) == <<year, month, day, product>>

\* what s3_download leaves at fileout: the object's content when the object exists
\* and the transfer worked, nothing otherwise (absence is not an error)
s3_download(outcome, uri, fileout, files) ==
    IF outcome = "ok" /\ uri \in DOMAIN remote_catalog
    THEN (fileout :> remote_catalog[uri]) @@ files
    ELSE files

(***************************************************************************)
(* store_product (module_retriever.py).                                    *)
(***************************************************************************)
Codes == {"SRI"}

Days == {"29", "30"}

Times == {"10-55", "11-00"}

DateTimes == [year : {"2025"}, month : {"6"}, day : Days, hm : Times]

Bucket == [scheme |-> "s3://", dir |-> <<"saferplaces.co">>]

\* date_time.strftime('%d-%m-%Y-%H-%M'), the name of an extracted shapefile
strftime(dt) == <<dt.day, dt.month, dt.year, dt.hm>>

\* the processed artifacts store_product is given: a raster, which keeps the name
\* of the attachment as the upstream chose it (here one that does not spell the
\* time), and an extracted shapefile, named after the timestamp
Raster(dt) == [scheme |-> "", dir |-> <<"out">>, stem |-> <<"data">>, ext |-> "tif"]

Shapefile(dt) == [scheme |-> "", dir |-> <<"out">>, stem |-> strftime(dt), ext |-> "shp"]

additional_exts == <<".shx", ".dbf", ".prj", ".cpg">>

\* uri = f'{s3_bucket}/data/{hive_path}/{justfname(data_filepath)}'
payload_uri(s3_bucket, hive, data_filepath) ==
    [scheme |-> s3_bucket.scheme,
     dir |-> s3_bucket.dir \o <<"data">> \o hive,
     stem |-> justfname(data_filepath).stem,
     ext |-> justfname(data_filepath).ext]

\* (a slip: the catalog object placed beside the product's directory, not in it)
catalog_uri_flat(s3_bucket, hive, code) ==
    [scheme |-> s3_bucket.scheme,
     dir |-> s3_bucket.dir \o <<"catalog">> \o SubSeq(hive, 1, Len(hive) - 1),
     stem |-> <<code>>,
     ext |-> "json"]

\* avaliability_uri = f'{s3_bucket}/catalog/{hive_path}/{product.code}.json'
catalog_uri(s3_bucket, hive, code) ==
    [scheme |-> s3_bucket.scheme,
     dir |-> s3_bucket.dir \o <<"catalog">> \o hive,
     stem |-> <<code>>,
     ext |-> "json"]

\* catalog_object(): the record one call appends
catalog_object(code, dt, uri) == [product |-> code, date_time |-> dt, uri |-> uri]

\* the lock file of the with-statement: forceext(avaliable_filepath, 'lock')
lock_name(avaliable_filepath) == forceext(avaliable_filepath, "lock")

NoPath == [scheme |-> "", dir |-> <<>>, stem |-> <<>>, ext |-> ""]

NoDate == [year |-> "", month |-> "", day |-> "", hm |-> ""]

NoError == [kind |-> "none", has_path |-> FALSE, path |-> NoPath, uri |-> NoPath]

\* the frame of a process that is not inside store_product
IdleFrame ==
    [pc |-> "idle", code |-> "", date_time |-> NoDate, data_filepath |-> NoPath,
     register_catalog |-> FALSE, uri |-> NoPath, uploaded |-> {}, failed |-> {},
     avaliability_uri |-> NoPath, avaliable_filepath |-> NoPath, clock |-> 0,
     err |-> NoError, dl |-> "none", before |-> <<>>, after |-> <<>>, overlapped |-> FALSE]

\* a process is inside the catalog part of store_product
InCatalog(f) == f.pc \in {"lock", "download", "upload"}

\* the uploads one payload needs: the file itself, and a shapefile's four sidecars
UploadNames(data_filepath) ==
    {"main"} \cup (IF justext(data_filepath) = "shp"
                   THEN {additional_exts[i] : i \in DOMAIN additional_exts} ELSE {})

\* all([s3_upload(forceext(...)) for additional_ext in additional_exts]): the list is
\* built in full, so every sidecar upload is attempted
sidecars_ok(F) == \A i \in DOMAIN additional_exts : additional_exts[i] \notin F

\* (a slip: the results of the uploads are not looked at)
payload_upload_ok_unchecked(data_filepath, F) == TRUE

\* (a slip: the sidecars' results are dropped)
payload_upload_ok_main_only(data_filepath, F) == "main" \notin F

\* upload_ok after lines 160-169: `upload_ok and all([...])` for a shapefile
payload_upload_ok(data_filepath, F) ==
    /\ "main" \notin F
    /\ (justext(data_filepath) = "shp" => sidecars_ok(F))

\* the sidecar uploads the code attempts: none when the main upload failed
\* (`and` does not evaluate its right operand), none for a non-shapefile
sidecars_attempted(data_filepath, F) ==
    IF "main" \notin F /\ justext(data_filepath) = "shp"
    THEN {additional_exts[i] : i \in DOMAIN additional_exts} ELSE {}

\* (a slip: the message leaves the local path out)
payload_error_no_path(data_filepath, uri) ==
    [kind |-> "storing", has_path |-> FALSE, path |-> NoPath, uri |-> uri]

\* the DPCException of line 172
payload_error(data_filepath, uri) ==
    [kind |-> "storing", has_path |-> TRUE, path |-> data_filepath, uri |-> uri]

\* the DPCException of line 192
availability_error(avaliable_filepath, avaliability_uri) ==
    [kind |-> "availability", has_path |-> FALSE, path |-> NoPath, uri |-> avaliability_uri]

CatalogContent(uri) == IF uri \in DOMAIN remote_catalog THEN remote_catalog[uri] ELSE <<>>

\* lines 152-184: the payload upload, its check, and the set-up of the catalog part
\* (shapes: the payloads the caller may pass; maxfail: how many uploads may fail)
StoreUpload(p, shapes, maxfail, maxcalls) ==
    /\ st[p].pc \in {"idle", "returned", "raised"}
    /\ calls < maxcalls
    /\ \E code \in Codes, dt \in DateTimes, reg \in BOOLEAN, n \in {now, now + 1} :
       \E data_filepath \in {Raster(dt)} \cup (IF shapes THEN {Shapefile(dt)} ELSE {}) :
       \E F \in {G \in SUBSET UploadNames(data_filepath) : Cardinality(G) <= maxfail} :
         LET hive == hive_path(dt.year, dt.month, dt.day, code)
             uri == payload_uri(Bucket, hive, data_filepath)
             tried == sidecars_attempted(data_filepath, F)
             sent == (IF "main" \in F THEN {} ELSE {uri})
                     \cup {forceext(uri, e) : e \in tried \ F}
             failed == (IF "main" \in F
                        THEN {[path |-> data_filepath, uri |-> uri]} ELSE {})
                       \cup {[path |-> forceext(data_filepath, e),
                               uri |-> forceext(uri, e)] : e \in tried \cap F}
             upload_ok == payload_upload_ok(data_filepath, F)
             avaliability_uri == catalog_uri(Bucket, hive, code)
             busy == \E q \in Procs \ {p} : InCatalog(st[q])
             frame == [IdleFrame EXCEPT
                         !.code = code, !.date_time = dt, !.data_filepath = data_filepath,
                         !.register_catalog = reg, !.uri = uri, !.uploaded = sent,
                         !.failed = failed, !.overlapped = busy,
                         !.before = CatalogContent(avaliability_uri)]
         IN /\ remote_data' = remote_data \cup sent
            /\ calls' = calls + 1
            /\ IF ~upload_ok
               THEN /\ st' = [st EXCEPT ![p] =
                             [frame EXCEPT !.pc = "raised",
                                           !.err = payload_error(data_filepath, uri)]]
                    /\ now' = now
               ELSE IF reg
               THEN /\ st' = [q \in Procs |->
                               IF q = p
                               THEN [frame EXCEPT !.pc = "lock",
                                        !.avaliability_uri = avaliability_uri,
                                        !.avaliable_filepath = tempfilename(n, ".json"),
                                        !.clock = n]
                               ELSE IF InCatalog(st[q])
                               THEN [st[q] EXCEPT !.overlapped = TRUE]
                               ELSE st[q]]
                    /\ now' = n
               ELSE /\ st' = [st EXCEPT ![p] = [frame EXCEPT !.pc = "returned"]]
                    /\ now' = now
    /\ UNCHANGED <<remote_catalog, local_files, locks, rp, pp, mp, pq, xp>>

\* line 186: FileLock(...).acquire() blocks while the lock file is held
StoreAcquire(p) ==
    /\ st[p].pc = "lock"
    /\ lock_name(st[p].avaliable_filepath) \notin locks
    /\ locks' = locks \cup {lock_name(st[p].avaliable_filepath)}
    /\ st' = [st EXCEPT ![p].pc = "download"]
    /\ UNCHANGED <<remote_data, remote_catalog, local_files, now, calls, rp, pp, mp, pq, xp>>

\* (a slip: leaving the with block keeps the lock file held)
FileLock_exit_held(held, name) == held

\* FileLock.__exit__: leaving the with block of line 186, by its end or by an
\* exception, releases the lock
FileLock_exit(held, name) == held \ {name}

\* pd.DataFrame([catalog_object()]).to_json(path, mode='a', lines=True): one line more
to_json_append(files, path, record) ==
    (path :> Append(IF path \in DOMAIN files THEN files[path] ELSE <<>>, record)) @@ files

\* lines 187-188: the download, whose result is discarded, and the append
StoreDownload(p) ==
    /\ st[p].pc = "download"
    /\ \E outcome \in {"ok", "fail", "raise", "append_raise"} :
         IF outcome = "raise"
         THEN /\ locks' = FileLock_exit(locks, lock_name(st[p].avaliable_filepath))
              /\ st' = [st EXCEPT ![p].pc = "raised", ![p].dl = outcome,
                                   ![p].err = [NoError EXCEPT !.kind = "download"]]
              /\ now' = IF now = st[p].clock THEN now + 1 ELSE now
              /\ UNCHANGED local_files
         ELSE IF outcome = "append_raise"                   \* to_json raises
         THEN /\ locks' = FileLock_exit(locks, lock_name(st[p].avaliable_filepath))
              /\ local_files' = s3_download("ok", st[p].avaliability_uri,
                                            st[p].avaliable_filepath, local_files)
              /\ st' = [st EXCEPT ![p].pc = "raised", ![p].dl = outcome,
                                   ![p].err = [NoError EXCEPT !.kind = "append"]]
              /\ now' = IF now = st[p].clock THEN now + 1 ELSE now
         ELSE /\ local_files' =
                   to_json_append(
                       s3_download(outcome, st[p].avaliability_uri,
                                   st[p].avaliable_filepath, local_files),
                       st[p].avaliable_filepath,
                       catalog_object(st[p].code, st[p].date_time, st[p].uri))
              /\ st' = [st EXCEPT ![p].pc = "upload", ![p].dl = outcome]
              /\ UNCHANGED <<locks, now>>
    /\ UNCHANGED <<remote_data, remote_catalog, calls, rp, pp, mp, pq, xp>>

\* lines 189-194: the catalog upload (remove_src=True), its check, the release
StoreCatalogUpload(p) ==
    /\ st[p].pc = "upload"
    /\ locks' = FileLock_exit(locks, lock_name(st[p].avaliable_filepath))
    /\ now' = IF now = st[p].clock THEN now + 1 ELSE now
    /\ \E upload \in {"ok", "fail", "raise"} :
         IF upload = "raise"                                \* s3_upload raises
         THEN /\ st' = [st EXCEPT ![p].pc = "raised",
                                   ![p].err = [NoError EXCEPT !.kind = "upload"]]
              /\ UNCHANGED <<remote_catalog, local_files>>
         ELSE IF upload = "ok"
         THEN /\ remote_catalog' =
                   (st[p].avaliability_uri :> local_files[st[p].avaliable_filepath])
                   @@ remote_catalog
              /\ local_files' = [f \in DOMAIN local_files \ {st[p].avaliable_filepath}
                                   |-> local_files[f]]
              /\ st' = [st EXCEPT ![p].pc = "returned",
                                   ![p].after = local_files[st[p].avaliable_filepath]]
         ELSE /\ st' = [st EXCEPT ![p].pc = "raised",
                                   ![p].failed = {[path |-> st[p].avaliable_filepath,
                                                   uri |-> st[p].avaliability_uri]},
                                   ![p].err = availability_error(st[p].avaliable_filepath,
                                                                 st[p].avaliability_uri)]
              /\ UNCHANGED <<remote_catalog, local_files>>
    /\ UNCHANGED <<remote_data, calls, rp, pp, mp, pq, xp>>

StoreInit ==
    /\ st = [p \in Procs |-> IdleFrame]
    /\ remote_data = {}
    /\ remote_catalog = <<>>
    /\ local_files = <<>>
    /\ locks = {}
    /\ now = 0
    /\ calls = 0
    /\ xp = None
    /\ pq = None
    /\ rp = None
    /\ pp = None
    /\ mp = None

\* two processes storing rasters concurrently; a payload upload fails or not
StoreNext == \E p \in Procs :
    \/ StoreUpload(p, FALSE, 1, MaxCalls)
    \/ StoreAcquire(p)
    \/ StoreDownload(p)
    \/ StoreCatalogUpload(p)

SpecStore == StoreInit /\ [][StoreNext]_vars

\* one process storing rasters and shapefiles, any of whose uploads may fail
PayloadNext ==
    \/ StoreUpload(1, TRUE, MaxFailures, MaxPayloadCalls)
    \/ StoreAcquire(1)
    \/ StoreDownload(1)
    \/ StoreCatalogUpload(1)

SpecPayload == StoreInit /\ [][PayloadNext]_vars

(***************************************************************************)
(* dpc/DPCProduct.py: the upstream queries.  The upstream's answers are    *)
(* inputs: the existsProduct answer is one of ExistsAnswers, the           *)
(* downloadProduct answer a record of DownloadAnswers.                     *)
(***************************************************************************)
ExistsAnswers == {"true", "false", "non200", "badjson", "transport"}

DownloadAnswers ==
    [status : {"200", "500", "transport"},
     filename : {"none", "zip", "tif", "other"},   \* the Content-Disposition header
     body : {"empty", "corrupt", "valid"},
     shp : {"missing", "corrupt", "valid"}]        \* the expected shapefile of an archive

\* is_datetime_avaliable: "True", "False", or "raise" (an exception leaves it)
is_datetime_avaliable(date_time, answer) ==
    IF date_time = None THEN "raise"                        \* None.timestamp()
    ELSE IF answer = "transport" THEN "raise"               \* requests.get raises
    ELSE IF answer = "true" THEN "True"
    ELSE IF answer = "false" THEN "False"
    ELSE IF answer = "badjson" THEN "raise"                 \* response.json() raises
    ELSE "False"

NoFile == [exists |-> FALSE, size |-> "empty", ext |-> ""]

Raised == [kind |-> "raise", file |-> NoFile]

\* request_data: "response" or "raise"
request_data(date_time, exists_answer, answer) ==
    IF is_datetime_avaliable(date_time, exists_answer) # "True" THEN "raise"
    ELSE IF answer.status = "transport" THEN "raise"
    ELSE IF answer.status = "200" THEN "response"
    ELSE "raise"

\* line 149: a date_time of None stands for the last available one (taken here as
\* published: the failures of last_avaliable_datetime are SpecProduct's matter)
resolved(date_time) == IF date_time = None THEN "LAST" ELSE date_time

\* (a slip: the downloaded raster is returned without being opened)
download_data_unopened(date_time, exists_answer, answer) ==
    IF request_data(resolved(date_time), exists_answer, answer) = "raise" THEN Raised
    ELSE IF answer.filename = "none" THEN Raised
    ELSE IF answer.filename = "zip"
    THEN IF answer.body # "valid" THEN Raised
         ELSE IF answer.shp # "valid" THEN Raised
         ELSE [kind |-> "path", file |-> [exists |-> TRUE, size |-> "nonempty", ext |-> "shp"]]
    ELSE [kind |-> "path",
          file |-> [exists |-> TRUE,
                    size |-> IF answer.body = "empty" THEN "empty" ELSE "nonempty",
                    ext |-> answer.filename]]

\* download_data(date_time, out_dir, return_data=False): the path it returns and the
\* file at that path, or the exception
download_data(date_time, exists_answer, answer) ==
    IF request_data(resolved(date_time), exists_answer, answer) = "raise" THEN Raised
    ELSE IF answer.filename = "none" THEN Raised           \* no attachment filename
    ELSE IF answer.filename = "zip"
    THEN IF answer.body # "valid" THEN Raised              \* zipfile.ZipFile raises
         ELSE IF answer.shp # "valid" THEN Raised          \* gpd.read_file raises
         ELSE [kind |-> "path", file |-> [exists |-> TRUE, size |-> "nonempty", ext |-> "shp"]]
    ELSE IF answer.filename = "tif"
    THEN IF answer.body # "valid" THEN Raised              \* rioxarray.open_rasterio raises
         ELSE [kind |-> "path", file |-> [exists |-> TRUE, size |-> "nonempty", ext |-> "tif"]]
    ELSE [kind |-> "path",                                 \* written, never opened
          file |-> [exists |-> TRUE,
                    size |-> IF answer.body = "empty" THEN "empty" ELSE "nonempty",
                    ext |-> answer.filename]]

(***************************************************************************)
(* dpc/products.py, the static product table, and the queries of a product *)
(* descriptor (DPCProduct).  An instant is a count of minutes; the         *)
(* upstream's answer to findLastProductByType is one of LastAnswers.       *)
(***************************************************************************)
\* the update_frequency of every entry of _ALL_PRODUCTS
update_frequency ==
    [code \in {"VMI", "SRI", "SRT1", "IR108", "HRD"} |-> "5min"]
    @@ [code \in {"SRT3", "SRT6", "SRT12", "SRT24", "TEMP"} |-> "1h"]
    @@ [code \in {"LTG", "CAPPI1", "CAPPI2", "CAPPI3", "CAPPI4", "CAPPI5", "CAPPI6",
                  "CAPPI7", "CAPPI8"} |-> "10min"]
    @@ ("AMV" :> "20min")
    @@ ("RADAR_STATUS" :> None)

ALL_PRODUCTS == DOMAIN update_frequency

\* the minutes of a pandas offset alias
FreqMinutes == ("5min" :> 5) @@ ("10min" :> 10) @@ ("20min" :> 20) @@ ("1h" :> 60)

NoOut == [kind |-> "none", bool |-> FALSE, t |-> 0, class |-> "", msg |-> ""]

\* pd.Timestamp(t).floor(freq): the last multiple of freq at or before t; a freq
\* of None is no offset and the call raises
floor(t, freq) ==
    IF freq \in DOMAIN FreqMinutes
    THEN [NoOut EXCEPT !.kind = "value", !.t = t - (t % FreqMinutes[freq])]
    ELSE [NoOut EXCEPT !.kind = "raise", !.class = "Exception"]

\* DPCProduct.now_datetime, the clock reading t
now_datetime(code, t) == floor(t, update_frequency[code])

\* is_datetime_avaliable as a result record
exists_product(date_time, answer) ==
    LET r == is_datetime_avaliable(date_time, answer)
    IN IF r = "raise"
       THEN [NoOut EXCEPT !.kind = "raise",
                          !.class = IF date_time = None THEN "AttributeError"
                                    ELSE IF answer = "transport" THEN "RequestException"
                                    ELSE "JSONDecodeError"]
       ELSE [NoOut EXCEPT !.kind = "value", !.bool = (r = "True")]

LastAnswers == {"transport", "non200", "badjson", "nokey", "empty", "other_product",
                "notime", "entry"}

\* the 'time' of the product's entry of lastProducts, in milliseconds
EntryTimes == {0, 1500, 300000}

\* (a slip: the two DPCExceptions carry the same message)
last_avaliable_datetime_one_message(code, answer, time) ==
    IF answer = "transport"
    THEN [NoOut EXCEPT !.kind = "raise", !.class = "RequestException"]
    ELSE IF answer = "non200"
    THEN [NoOut EXCEPT !.kind = "raise", !.class = "DPCException", !.msg = "No available details"]
    ELSE IF answer = "badjson"
    THEN [NoOut EXCEPT !.kind = "raise", !.class = "JSONDecodeError"]
    ELSE IF answer \in {"nokey", "empty", "other_product"}
    THEN [NoOut EXCEPT !.kind = "raise", !.class = "DPCException", !.msg = "No available details"]
    ELSE IF answer = "notime"
    THEN [NoOut EXCEPT !.kind = "raise", !.class = "KeyError"]
    ELSE [NoOut EXCEPT !.kind = "value", !.t = time \div 1000]

\* DPCProduct.last_avaliable_datetime
last_avaliable_datetime(code, answer, time) ==
    IF answer = "transport"                                 \* requests.get raises
    THEN [NoOut EXCEPT !.kind = "raise", !.class = "RequestException"]
    ELSE IF answer = "non200"                               \* line 97
    THEN [NoOut EXCEPT !.kind = "raise", !.class = "DPCException", !.msg = "Error fetching"]
    ELSE IF answer = "badjson"                              \* response.json() raises
    THEN [NoOut EXCEPT !.kind = "raise", !.class = "JSONDecodeError"]
    ELSE IF answer \in {"nokey", "empty", "other_product"}  \* line 105
    THEN [NoOut EXCEPT !.kind = "raise", !.class = "DPCException", !.msg = "No available details"]
    ELSE IF answer = "notime"                               \* avaliable_details[0]['time']
    THEN [NoOut EXCEPT !.kind = "raise", !.class = "KeyError"]
    ELSE [NoOut EXCEPT !.kind = "value", !.t = time \div 1000]

NoQuery == [op |-> "none", code |-> "", date_time |-> None, answer |-> "", t |-> 0,
            out |-> NoOut]

ProductInit ==
    /\ pq = NoQuery
    /\ st = [p \in Procs |-> IdleFrame]
    /\ remote_data = {}
    /\ remote_catalog = <<>>
    /\ local_files = <<>>
    /\ locks = {}
    /\ now = 0
    /\ calls = 0
    /\ xp = None
    /\ rp = None
    /\ pp = None
    /\ mp = None

\* one query of a fresh descriptor
IsDatetimeAvaliable ==
    /\ pq.op = "none"
    /\ \E code \in ALL_PRODUCTS, date_time \in {None, "2025-06-30T10:55:00"},
          answer \in ExistsAnswers :
         pq' = [NoQuery EXCEPT !.op = "is_datetime_avaliable", !.code = code,
                               !.date_time = date_time, !.answer = answer,
                               !.out = exists_product(date_time, answer)]
    /\ UNCHANGED <<storeVars, rp, pp, mp, xp>>

LastAvaliableDatetime ==
    /\ pq.op = "none"
    /\ \E code \in ALL_PRODUCTS, answer \in LastAnswers, time \in EntryTimes :
         pq' = [NoQuery EXCEPT !.op = "last_avaliable_datetime", !.code = code,
                               !.answer = answer, !.t = time,
                               !.out = last_avaliable_datetime(code, answer, time)]
    /\ UNCHANGED <<storeVars, rp, pp, mp, xp>>

NowDatetime ==
    /\ pq.op = "none"
    /\ \E code \in ALL_PRODUCTS, t \in 0 .. MaxInstant :
         pq' = [NoQuery EXCEPT !.op = "now_datetime", !.code = code, !.t = t,
                               !.out = now_datetime(code, t)]
    /\ UNCHANGED <<storeVars, rp, pp, mp, xp>>

\* args_validation, lines 48-62, for a date that is not 'LAST': None gives
\* product.now_datetime(); an ISO string gives datetime.fromisoformat(dt), the
\* instant the string spells, with its minutes as written
validated_dt(code, supplied, dt, clock) ==
    IF ~supplied THEN now_datetime(code, clock)
    ELSE [NoOut EXCEPT !.kind = "value", !.t = dt]

\* main.py line 167 and module_retriever.py line 33: main_python called with the
\* date dt; the validated date is the date_time of retrieve_product, which hands
\* it to is_datetime_avaliable; out.t is the instant the upstream is asked about
QueriedDatetime ==
    /\ pq.op = "none"
    /\ \E code \in ALL_PRODUCTS, supplied \in BOOLEAN, dt \in 0 .. MaxInstant,
          answer \in {"true", "false"} :
         LET v == validated_dt(code, supplied, dt, dt)
         IN pq' = [NoQuery EXCEPT !.op = "queried", !.code = code, !.t = dt,
                                  !.date_time = IF supplied THEN "supplied" ELSE None,
                                  !.answer = answer,
                                  !.out = IF v.kind = "raise" THEN v
                                          ELSE [exists_product("supplied", answer)
                                                  EXCEPT !.t = v.t]]
    /\ UNCHANGED <<storeVars, rp, pp, mp, xp>>

ProductNext ==
    \/ IsDatetimeAvaliable
    \/ LastAvaliableDatetime
    \/ NowDatetime
    \/ QueriedDatetime

SpecProduct == ProductInit /\ [][ProductNext]_vars

(***************************************************************************)
(* Claims about the product queries.                                       *)
(***************************************************************************)
\* C14: is_datetime_avaliable never raises: whatever the upstream's answer
\* (success with true or false, non-success status, transport failure), for a
\* date_time that is a timestamp, it returns a boolean, False for every answer
\* but a success with true.
C14_AvailabilityNeverRaises ==
    (pq.op = "is_datetime_avaliable" /\ pq.date_time # None /\ pq.answer # "badjson")
    => /\ pq.out.kind = "value"
       /\ pq.answer # "true" => ~pq.out.bool

NoEntryAnswer == pq.op = "last_avaliable_datetime"
                 /\ pq.answer \in {"nokey", "empty", "other_product"}

C19_FloorIdempotent ==
    pq.op = "now_datetime"
    => /\ pq.out.kind = "value"
       /\ pq.out.t <= pq.t
       /\ update_frequency[pq.code] \in DOMAIN FreqMinutes
       /\ pq.out.t % FreqMinutes[update_frequency[pq.code]] = 0
       /\ floor(pq.out.t, update_frequency[pq.code]) = pq.out

\* C23: when the caller supplies a date_time, the instant handed to the
\* availability query is a multiple of the product's update_frequency.
C23_QueriedOnCadenceBoundary ==
    (/\ pq.op = "queried" /\ pq.date_time # None
     /\ update_frequency[pq.code] \in DOMAIN FreqMinutes)
    => pq.out.t % FreqMinutes[update_frequency[pq.code]] = 0

(***************************************************************************)
(* retrieve_product (module_retriever.py).                                 *)
(***************************************************************************)
\* the try body, lines 32-42: the file of the path it yields, or the exception
retrieve_try(date_time, exists1, exists2, answer) ==
    IF is_datetime_avaliable(date_time, exists1) = "raise" THEN Raised
    ELSE IF is_datetime_avaliable(date_time, exists1) = "False" THEN Raised
    ELSE LET got == download_data(date_time, exists2, answer)
         IN IF got.kind = "raise" THEN Raised
            ELSE IF ~got.file.exists THEN Raised           \* line 41
            ELSE got

\* (a slip: one retry too few)
retry_exhausted_early(max_retry) == max_retry <= 1

\* (a slip: one retry too many)
retry_exhausted_late(max_retry) == max_retry < 0

\* line 45: the retries are used up
retry_exhausted(max_retry) == max_retry <= 0

RetrieveInit ==
    /\ rp \in [pc : {"try"}, N : -1 .. MaxRetry, max_retry : -1 .. MaxRetry,
                retry_delay : {0, 60}, date_time : {None, "2025-06-30T10:55:00"},
                attempts : {0}, sleeps : {<<>>}, outcomes : {<<>>}, file : {NoFile},
                upstream_ok : {FALSE}]
    /\ rp.max_retry = rp.N
    /\ st = [p \in Procs |-> IdleFrame]
    /\ remote_data = {}
    /\ remote_catalog = <<>>
    /\ local_files = <<>>
    /\ locks = {}
    /\ now = 0
    /\ calls = 0
    /\ xp = None
    /\ pq = None
    /\ pp = None
    /\ mp = None

\* the upstream has the timestamp and serves a well-formed raster or archive
upstream_fine(exists1, exists2, answer) ==
    /\ exists1 = "true" /\ exists2 = "true"
    /\ answer.status = "200" /\ answer.body = "valid"
    /\ answer.filename \in {"zip", "tif"}
    /\ answer.filename = "zip" => answer.shp = "valid"

\* lines 32-46 and 58: one run of the try body, then the return, the terminal
\* error, or the decision to retry
RetrieveTry ==
    /\ rp.pc = "try"
    /\ \E exists1 \in ExistsAnswers, exists2 \in ExistsAnswers, answer \in DownloadAnswers :
         LET got == retrieve_try(rp.date_time, exists1, exists2, answer)
         IN rp' = [rp EXCEPT
                     !.attempts = @ + 1,
                     !.outcomes = Append(@, IF got.kind = "path" THEN "ok" ELSE "fail"),
                     !.file = got.file,
                     !.upstream_ok = upstream_fine(exists1, exists2, answer),
                     !.pc = IF got.kind = "path" THEN "returned"
                            ELSE IF retry_exhausted(rp.max_retry) THEN "raised"
                            ELSE "sleep"]
    /\ UNCHANGED <<storeVars, pp, mp, pq, xp>>

\* lines 55-56: time.sleep(retry_delay), then the recursive call with max_retry - 1
RetrieveSleep ==
    /\ rp.pc = "sleep"
    /\ rp' = [rp EXCEPT !.sleeps = Append(@, rp.retry_delay),
                        !.max_retry = @ - 1,
                        !.pc = "try"]
    /\ UNCHANGED <<storeVars, pp, mp, pq, xp>>

RetrieveNext == RetrieveTry \/ RetrieveSleep

SpecRetrieve == RetrieveInit /\ [][RetrieveNext]_vars

(***************************************************************************)
(* Claims about retrieve_product.                                          *)
(***************************************************************************)
\* C2: with max_retry = N >= 0 and an upstream that fails on every attempt,
\* retrieve_product makes exactly N + 1 attempts and N sleeps of retry_delay
\* seconds each, and then raises; it never makes more than N + 1 attempts.
C2_ExactlyNRetries ==
    /\ (rp.pc = "raised" /\ rp.N >= 0)
         => /\ rp.attempts = rp.N + 1
            /\ Len(rp.sleeps) = rp.N
            /\ \A i \in DOMAIN rp.sleeps : rp.sleeps[i] = rp.retry_delay
            /\ \A i \in DOMAIN rp.outcomes : rp.outcomes[i] = "fail"
    /\ rp.N >= 0 => rp.attempts <= rp.N + 1
    /\ (rp.N >= 0 /\ rp.pc \in {"try", "sleep"}) => rp.attempts <= rp.N

\* the scenario max_retry = 2 of an upstream that never answers: raised after 2 sleeps
C2_Witness ==
    rp.pc = "raised" /\ rp.N = 2 /\ Len(rp.sleeps) = 2 /\ rp.attempts = 3 /\ rp.retry_delay = 60

\* C16: with date_time None, retrieve_product targets the last available
\* timestamp and succeeds whenever the upstream has published it and the
\* download works.
C16_NoneTargetsLatest ==
    (rp.date_time = None /\ rp.N >= 0 /\ rp.attempts > 0 /\ rp.upstream_ok)
    => rp.pc = "returned"

\* C3 as claimed: a returned path refers to a file that exists and is non-empty.
C3_ReturnedFileNonEmpty ==
    rp.pc = "returned" => (rp.file.exists /\ rp.file.size = "nonempty")

\* C3 as amended: a returned path refers to a file that exists; the file is
\* non-empty when it is a .tif or an extracted .shp, which download_data opens
\* before it returns.
C3_ReturnedFileExists ==
    rp.pc = "returned"
    => /\ rp.file.exists
       /\ rp.file.ext \in {"tif", "shp"} => rp.file.size = "nonempty"

\* a success response with an empty body and an attachment that is neither an
\* archive nor a raster: the path of an empty file is returned
C3_Witness ==
    rp.pc = "returned" /\ rp.file.exists /\ rp.file.size = "empty" /\ rp.file.ext = "other"

\* the retries a call with max_retry = N has: a negative N counts as 0
Retries(N) == IF N < 0 THEN 0 ELSE N

\* C27: for every max_retry = N and every sequence of attempt outcomes, a call
\* whose first success is attempt k returns right after it, having made k
\* attempts and k - 1 sleeps; the call raises exactly when attempts 1 .. N + 1
\* all failed; no call makes more than N + 1 attempts (one attempt for N < 0).
C27_FirstSuccessOrExhaustion ==
    /\ rp.attempts <= Retries(rp.N) + 1
    /\ Len(rp.outcomes) = rp.attempts
    /\ rp.pc = "returned"
         => /\ rp.attempts >= 1
            /\ rp.outcomes[rp.attempts] = "ok"
            /\ \A i \in 1 .. rp.attempts - 1 : rp.outcomes[i] = "fail"
            /\ Len(rp.sleeps) = rp.attempts - 1
    /\ rp.pc = "raised"
         <=> /\ rp.attempts = Retries(rp.N) + 1
             /\ \A i \in DOMAIN rp.outcomes : rp.outcomes[i] = "fail"
    /\ rp.pc = "sleep" => rp.outcomes[rp.attempts] = "fail"
    /\ rp.pc = "try" => Len(rp.sleeps) = rp.attempts

\* max_retry = 3, two failures and then a success: returned after two sleeps
C27_Witness ==
    /\ rp.pc = "returned" /\ rp.N = 3
    /\ rp.outcomes = <<"fail", "fail", "ok">> /\ Len(rp.sleeps) = 2

(***************************************************************************)
(* process_product (module_retriever.py).  Its input is the record         *)
(*   [data_filepath, isfile, bbox, t_srs, out_format, output_dir, lib]     *)
(* where lib names the library call that fails ("none" when all work).     *)
(* Its result is [status, err, ops, dest, written]: ops is the sequence of *)
(* operations applied to the data, written the encoding of the file        *)
(* written at dest ("none" when nothing was written).                      *)
(***************************************************************************)
ProcessCode == "SRI"

ProcessDate == [year |-> "2025", month |-> "6", day |-> "30", hm |-> "10-55"]

ProcessInputs ==
    [data_filepath : {[scheme |-> "", dir |-> <<"tmp">>, stem |-> <<"data">>, ext |-> e] :
                         e \in {"tif", "tiff", "shp", "geojson", "nc", "txt", ""}},
     isfile : BOOLEAN,
     bbox : {None, "12,45.15,12.7,45.6"},
     t_srs : {None, "EPSG:4326"},
     out_format : {None, ".tif", ".geotiff", ".nc", ".netcdf", ".shp", ".geojson", ".xyz",
                   "tif"},
     output_dir : {None, "outputs"},
     lib : {"none", "open", "clip", "reproject", "write"}]

\* israster: an existing file whose lower-cased name ends with a raster extension
israster(i) == i.isfile /\ justext(i.data_filepath) \in {"tif", "tiff", "geotiff"}

\* isvector
isvector(i) == i.isfile /\ justext(i.data_filepath) \in {"json", "geojson", "shp"}

\* lines 73-79
data_type(i) ==
    IF israster(i) THEN "raster"
    ELSE IF isvector(i) THEN "vector"
    ELSE justext(i.data_filepath)

\* lines 84-90; justext has no leading dot, so it differs from None and from
\* every dotted out_format, and equals an out_format given without its dot
to_be_processed(i) ==
    \/ i.bbox # None
    \/ i.t_srs # None
    \/ justext(i.data_filepath) # i.out_format
    \/ data_type(i) = "raster"
    \/ i.output_dir # None

\* lines 92-95
dest_data_filepath(i) ==
    IF i.output_dir # None
    THEN [scheme |-> "",
          dir |-> <<i.output_dir>>
                  \o hive_path(ProcessDate.year, ProcessDate.month, ProcessDate.day, ProcessCode),
          stem |-> justfname(i.data_filepath).stem,
          ext |-> justfname(i.data_filepath).ext]
    ELSE i.data_filepath

NoProcessError == [kind |-> "none", code |-> FALSE, date_time |-> FALSE,
                   format |-> FALSE, path |-> FALSE]

\* an exception of a library call: it names nothing of the request
LibraryError == [NoProcessError EXCEPT !.kind = "library"]

\* the DPCException of lines 110 and 127
FormatError == [kind |-> "DPCException", code |-> TRUE, date_time |-> TRUE,
                format |-> TRUE, path |-> FALSE]

\* the DPCException of line 82
DataTypeError == [kind |-> "DPCException", code |-> TRUE, date_time |-> TRUE,
                  format |-> FALSE, path |-> TRUE]

ProcessRaised(i, err, ops) ==
    [status |-> "raised", err |-> err, ops |-> ops, dest |-> NoPath, written |-> "none"]

ProcessReturned(i, ops, written) ==
    [status |-> "returned", err |-> NoProcessError, ops |-> ops,
     dest |-> dest_data_filepath(i), written |-> written]

\* line 109
raster_format_supported(out_format) == out_format \in {".tif", ".geotiff", ".nc", ".netcdf"}

\* line 126
vector_format_supported(out_format) == out_format \in {".shp", ".geojson"}

\* (a slip: the raster is used as it was read, its sentinel left in place)
raster_opened_raw == <<"open">>

\* lines 98-103: open, sentinel -> NaN, nodata = NaN
raster_opened == <<"open", "sentinel", "nodata">>

raster_clipped(i) == raster_opened \o (IF i.bbox # None THEN <<"clip">> ELSE <<>>)

raster_reprojected(i) == raster_clipped(i) \o (IF i.t_srs # None THEN <<"reproject">> ELSE <<>>)

\* lines 97-116
process_raster(i) ==
    IF i.lib = "open" THEN ProcessRaised(i, LibraryError, <<>>)
    ELSE IF i.bbox # None /\ i.lib = "clip"
    THEN ProcessRaised(i, LibraryError, raster_opened)
    ELSE IF i.t_srs # None /\ i.lib = "reproject"
    THEN ProcessRaised(i, LibraryError, raster_clipped(i))
    ELSE IF /\ i.out_format # None
            /\ justext(i.data_filepath) # i.out_format
            /\ ~raster_format_supported(i.out_format)
    THEN ProcessRaised(i, FormatError, raster_reprojected(i))
    ELSE IF ~to_be_processed(i) THEN ProcessReturned(i, raster_reprojected(i), "none")
    ELSE IF i.out_format \in {None, ".tif", ".geotiff"}
    THEN IF i.lib = "write" THEN ProcessRaised(i, LibraryError, raster_reprojected(i))
         ELSE ProcessReturned(i, Append(raster_reprojected(i), "to_raster"), "GTiff")
    ELSE IF i.out_format \in {".nc", ".netcdf"}
    THEN IF i.lib = "write" THEN ProcessRaised(i, LibraryError, raster_reprojected(i))
         ELSE ProcessReturned(i, Append(raster_reprojected(i), "to_netcdf"), "netCDF")
    ELSE ProcessReturned(i, raster_reprojected(i), "none")

vector_clipped(i) == <<"open">> \o (IF i.bbox # None THEN <<"clip">> ELSE <<>>)

vector_reprojected(i) == vector_clipped(i) \o (IF i.t_srs # None THEN <<"reproject">> ELSE <<>>)

\* lines 118-129; to_file picks the driver from the extension of the path it is given
process_vector(i) ==
    IF i.lib = "open" THEN ProcessRaised(i, LibraryError, <<>>)
    ELSE IF i.bbox # None /\ i.lib = "clip"
    THEN ProcessRaised(i, LibraryError, <<"open">>)
    ELSE IF i.t_srs # None /\ i.lib = "reproject"
    THEN ProcessRaised(i, LibraryError, vector_clipped(i))
    ELSE IF i.out_format # None /\ ~vector_format_supported(i.out_format)
    THEN ProcessRaised(i, FormatError, vector_reprojected(i))
    ELSE IF ~to_be_processed(i) THEN ProcessReturned(i, vector_reprojected(i), "none")
    ELSE IF i.lib = "write" THEN ProcessRaised(i, LibraryError, vector_reprojected(i))
    ELSE ProcessReturned(i, Append(vector_reprojected(i), "to_file"),
                         justext(dest_data_filepath(i)))

\* lines 131-132: shutil.move of a file that is not there raises
process_opaque(i) ==
    IF ~i.isfile THEN ProcessRaised(i, LibraryError, <<>>)
    ELSE ProcessReturned(i, <<"move">>, "none")

\* lines 73-134; data_type is a string in every case, so line 82 is never reached
process_product(i) ==
    IF data_type(i) = None THEN ProcessRaised(i, DataTypeError, <<>>)
    ELSE IF data_type(i) = "raster" THEN process_raster(i)
    ELSE IF data_type(i) = "vector" THEN process_vector(i)
    ELSE process_opaque(i)

NoResult == [status |-> "none", err |-> NoProcessError, ops |-> <<>>, dest |-> NoPath,
             written |-> "none"]

ProcessInit ==
    /\ pp \in [pc : {"call"}, in : ProcessInputs, out : {NoResult}]
    /\ st = [p \in Procs |-> IdleFrame]
    /\ remote_data = {}
    /\ remote_catalog = <<>>
    /\ local_files = <<>>
    /\ locks = {}
    /\ now = 0
    /\ calls = 0
    /\ xp = None
    /\ pq = None
    /\ rp = None
    /\ mp = None

ProcessProduct ==
    /\ pp.pc = "call"
    /\ pp' = [pp EXCEPT !.pc = "done", !.out = process_product(pp.in)]
    /\ UNCHANGED <<storeVars, rp, mp, pq, xp>>

ProcessNext == ProcessProduct

SpecProcess == ProcessInit /\ [][ProcessNext]_vars

(***************************************************************************)
(* Claims about process_product.                                           *)
(***************************************************************************)
\* the call is over and was given a raster and an out_format that is none of
\* .tif, .geotiff, .nc, .netcdf
UnsupportedRasterCall ==
    /\ pp.pc = "done"
    /\ israster(pp.in)
    /\ pp.in.out_format \notin {None, ".tif", ".geotiff", ".nc", ".netcdf"}

\* C10: for a raster input and an out_format outside the supported raster set
\* (.tif, .geotiff, .nc, .netcdf), process_product raises and writes no output
\* file; when the raster opens and the requested clip and reprojection work, the
\* error is the processing error that names the product code and the requested
\* format.
C10_UnsupportedRasterFormat ==
    UnsupportedRasterCall
    => /\ pp.out.status = "raised"
       /\ pp.out.written = "none"
       /\ \A k \in DOMAIN pp.out.ops : pp.out.ops[k] \notin {"to_raster", "to_netcdf", "to_file"}
       /\ pp.in.lib \in {"none", "write"}
            => (pp.out.err.kind = "DPCException" /\ pp.out.err.code /\ pp.out.err.format)

\* the call is over and was given a path whose extension is neither a raster
\* nor a vector extension
UnclassifiableCall ==
    /\ pp.pc = "done"
    /\ justext(pp.in.data_filepath) \notin {"tif", "tiff", "geotiff", "json", "geojson", "shp"}

\* the call is over and was given a vector and an out_format that is neither
\* .shp nor .geojson, and every library call works
UnsupportedVectorCall ==
    /\ pp.pc = "done"
    /\ isvector(pp.in)
    /\ pp.in.out_format \notin {None, ".shp", ".geojson"}
    /\ pp.in.lib = "none"

\* C11: for an input whose extension is neither raster nor vector, and for an
\* unsupported format combination, process_product raises a processing error
\* that names the product and the timestamp, and returns no path; for the
\* unclassifiable input, when the file is there, the error names the path too.
C11_UnclassifiableRaises ==
    /\ (UnclassifiableCall \/ UnsupportedVectorCall)
         => /\ pp.out.status = "raised"
            /\ pp.out.dest = NoPath
    /\ ((UnclassifiableCall /\ pp.in.isfile) \/ UnsupportedVectorCall)
         => /\ pp.out.err.kind = "DPCException"
            /\ pp.out.err.code /\ pp.out.err.date_time
    /\ (UnclassifiableCall /\ pp.in.isfile) => pp.out.err.path

\* the encoding a requested out_format stands for
EncodingOf(out_format) ==
    IF out_format \in {".tif", ".geotiff"} THEN "GTiff"
    ELSE IF out_format \in {".nc", ".netcdf"} THEN "netCDF"
    ELSE lstrip(out_format)

\* the call returned and a conversion to another format was requested
ConversionReturned ==
    /\ pp.pc = "done" /\ pp.out.status = "returned"
    /\ pp.in.out_format # None
    /\ lstrip(pp.in.out_format) # justext(pp.in.data_filepath)

\* C12: whenever process_product returns, the requested clip and reprojection
\* have been applied, and when a conversion to another format was requested the
\* file at the returned path is encoded in, and named with the extension of, the
\* requested format.
C12_RequestedTransformationsApplied ==
    (pp.pc = "done" /\ pp.out.status = "returned")
    => /\ pp.in.bbox # None => \E k \in DOMAIN pp.out.ops : pp.out.ops[k] = "clip"
       /\ pp.in.t_srs # None => \E k \in DOMAIN pp.out.ops : pp.out.ops[k] = "reproject"
       /\ ConversionReturned
            => /\ pp.out.written = EncodingOf(pp.in.out_format)
               /\ justext(pp.out.dest) = lstrip(pp.in.out_format)

\* C13: when none of bbox, t_srs, out_format and output_dir is requested, a call
\* that returns has not rewritten the artifact: nothing is written, the input is
\* the output.
C13_RewriteOnlyIfRequested ==
    (/\ pp.pc = "done" /\ pp.out.status = "returned"
     /\ pp.in.bbox = None /\ pp.in.t_srs = None
     /\ pp.in.out_format = None /\ pp.in.output_dir = None)
    => /\ pp.out.written = "none"
       /\ \A k \in DOMAIN pp.out.ops :
             pp.out.ops[k] \notin {"to_raster", "to_netcdf", "to_file"}
       /\ pp.out.dest = pp.in.data_filepath

\* C25: in the raster branch, every call whose raster opens normalizes the
\* sentinel (sentinel -> NaN, then nodata = NaN) right after the opening, before
\* any clip and any reprojection; a clip comes before a reprojection.
C25_SentinelThenClipThenReproject ==
    (pp.pc = "done" /\ israster(pp.in))
    => /\ pp.in.lib # "open" => pp.out.ops # <<>>
       /\ pp.out.ops # <<>>
            => /\ Len(pp.out.ops) >= 3
               /\ SubSeq(pp.out.ops, 1, 3) = <<"open", "sentinel", "nodata">>
       /\ \A j, k \in DOMAIN pp.out.ops :
             (pp.out.ops[j] = "clip" /\ pp.out.ops[k] = "reproject") => j < k

\* a GeoTIFF clipped, reprojected and written
C25_Witness ==
    /\ pp.pc = "done" /\ israster(pp.in) /\ pp.out.status = "returned"
    /\ pp.out.ops = <<"open", "sentinel", "nodata", "clip", "reproject", "to_raster">>

(***************************************************************************)
(* args_validation (module_args.py) and main_python (main.py).             *)
(* main_python is modelled stage by stage; what a stage does inside is the *)
(* matter of the specifications above, here a stage works or raises.       *)
(***************************************************************************)
\* an optional integer argument: None, or an int
NoInt == [none |-> TRUE, int |-> 0]

SomeInt(v) == [none |-> FALSE, int |-> v]

MainArgs ==
    [product : {None, "SRI", "XXX"},
     dt : {None, "LAST", "2025-06-30T10:55:00", "yesterday"},
     s3_bucket : {None, "s3://saferplaces.co", "saferplaces.co"},
     s3_catalog : BOOLEAN,
     max_retry : {NoInt, SomeInt(-1), SomeInt(0), SomeInt(3)},
     retry_delay : {NoInt, SomeInt(60)},
     return_data : BOOLEAN,
     status : BOOLEAN]

\* products.product_by_code: the product, or None
product_by_code(code) == IF code \in {"SRI"} THEN code ELSE None

\* filesystem.iss3
iss3(filename) == filename \in {"s3://saferplaces.co"}

\* (a slip: the registration flag is not checked against the bucket)
args_validation_unpaired(kwargs, last_ok) ==
    IF kwargs.product = None THEN "raise"
    ELSE IF product_by_code(kwargs.product) = None THEN "raise"
    ELSE IF kwargs.dt = "LAST" /\ ~last_ok THEN "raise"
    ELSE IF kwargs.dt \notin {None, "LAST", "2025-06-30T10:55:00"} THEN "raise"
    ELSE IF kwargs.s3_bucket # None /\ ~iss3(kwargs.s3_bucket) THEN "raise"
    ELSE IF kwargs.max_retry.none THEN "raise"
    ELSE IF kwargs.max_retry.int < 0 THEN "raise"
    ELSE IF kwargs.retry_delay.none THEN "raise"
    ELSE IF kwargs.retry_delay.int < 0 THEN "raise"
    ELSE "ok"

\* args_validation: "ok", or "raise" for the ValueError (or the DPCException of
\* last_avaliable_datetime when dt is 'LAST' and the upstream has nothing);
\* kwargs.get(key, default) yields None for a key that is present with value None
args_validation(kwargs, last_ok) ==
    IF kwargs.product = None THEN "raise"
    ELSE IF product_by_code(kwargs.product) = None THEN "raise"
    ELSE IF kwargs.dt = "LAST" /\ ~last_ok THEN "raise"
    ELSE IF kwargs.dt \notin {None, "LAST", "2025-06-30T10:55:00"} THEN "raise"
    ELSE IF kwargs.s3_bucket # None /\ ~iss3(kwargs.s3_bucket) THEN "raise"
    ELSE IF kwargs.s3_bucket = None /\ kwargs.s3_catalog THEN "raise"
    ELSE IF kwargs.max_retry.none THEN "raise"             \* not isinstance(None, int)
    ELSE IF kwargs.max_retry.int < 0 THEN "raise"
    ELSE IF kwargs.retry_delay.none THEN "raise"
    ELSE IF kwargs.retry_delay.int < 0 THEN "raise"
    ELSE "ok"

\* (a slip: every temporary file is swept, registered or not)
clean_temp_files_all(files, garbage, stuck) == files \ {"download", "scratch"}

\* clean_temp_files(from_garbage_collection=True): the registered files are removed,
\* but for those whose os.remove raises (stuck); the error is logged
clean_temp_files(files, garbage, stuck) == files \ (garbage \ stuck)

\* set_status(backend, jid, progress, message): the milestone is reported, after
\* those reported before it
set_status(reported, progress) == Append(reported, progress)

\* (a slip: the product is stored whether a bucket was given or not)
store_requested_always(args) == TRUE

\* line 196: `if s3_bucket is not None`
store_requested(args) == args.s3_bucket # None

MainStages == <<"validate", "retrieve", "process", "store">>

NoSnapshot == [files |-> {}, remote |-> {}]

\* result['body']: its 'data' is absent ("none", the body of an ERROR holds 'error'),
\* the bytes of the file ("bytes"), or a dict with 'filename' and, when the
\* product was stored, 'uri' ("dict"); uri is the scheme the URI starts with
NoBody == [data |-> "none", uri |-> ""]

MainInit ==
    /\ mp \in [pc : {"prologo"}, args : MainArgs, t0 : {FALSE}, stages : {<<>>},
                failed : {"none"}, progress : {<<>>}, files : {{}}, garbage : {{}},
                remote : {{}}, at_fail : {NoSnapshot}, result : {"none"},
                body : {NoBody}, escaped : {"none"}]
    /\ st = [p \in Procs |-> IdleFrame]
    /\ remote_data = {}
    /\ remote_catalog = <<>>
    /\ local_files = <<>>
    /\ locks = {}
    /\ now = 0
    /\ calls = 0
    /\ xp = None
    /\ pq = None
    /\ rp = None
    /\ pp = None

\* the except clause of line 223: the exception of a stage becomes the ERROR result
MainCaught(m, stage) ==
    [m EXCEPT !.pc = "finally", !.result = "ERROR", !.failed = stage,
              !.at_fail = [files |-> m.files, remote |-> m.remote]]

\* line 132: prologo binds t0 and jid, or raises
MainPrologo ==
    /\ mp.pc = "prologo"
    /\ \E ok \in BOOLEAN :
         mp' = IF ok THEN [mp EXCEPT !.t0 = TRUE,
                                     !.pc = IF mp.args.status THEN "status" ELSE "validate"]
               ELSE MainCaught(mp, "prologo")
    /\ UNCHANGED <<storeVars, rp, pp, pq, xp>>

\* lines 134-148: the listing of the products, then sys.exit(0)
MainStatus ==
    /\ mp.pc = "status"
    /\ \E listing_ok \in BOOLEAN :
         mp' = IF mp.args.product # None /\ product_by_code(mp.args.product) = None
               THEN MainCaught(mp, "status")
               ELSE IF ~listing_ok THEN MainCaught(mp, "status")
               ELSE [mp EXCEPT !.pc = "finally", !.escaped = "SystemExit"]
    /\ UNCHANGED <<storeVars, rp, pp, pq, xp>>

\* lines 154-170: args_validation, then milestone 10
MainValidate ==
    /\ mp.pc = "validate"
    /\ \E last_ok \in BOOLEAN :
         LET m == [mp EXCEPT !.stages = Append(@, "validate")]
         IN mp' = IF args_validation(mp.args, last_ok) = "raise"
                  THEN MainCaught(m, "validate")
                  ELSE [m EXCEPT !.pc = "retrieve", !.progress = set_status(@, 10)]
    /\ UNCHANGED <<storeVars, rp, pp, pq, xp>>

\* lines 174-181: retrieve_product, then milestone 40; a failed retrieval may have
\* left its download in the temporary directory
MainRetrieve ==
    /\ mp.pc = "retrieve"
    /\ \E ok \in BOOLEAN, left \in BOOLEAN :
         LET m == [mp EXCEPT !.stages = Append(@, "retrieve"),
                             !.files = IF ok \/ left THEN @ \cup {"download"} ELSE @]
         IN mp' = IF ok THEN [m EXCEPT !.pc = "process", !.progress = set_status(@, 40)]
                  ELSE MainCaught(m, "retrieve")
    /\ UNCHANGED <<storeVars, rp, pp, pq, xp>>

\* lines 183-193: process_product, then milestone 70; the output is written, or
\* the download moved, under output_dir
MainProcess ==
    /\ mp.pc = "process"
    /\ \E ok \in BOOLEAN, moved \in BOOLEAN :
         LET m == [mp EXCEPT !.stages = Append(@, "process")]
         IN mp' = IF ok
                  THEN [m EXCEPT !.files = (IF moved THEN @ \ {"download"} ELSE @)
                                           \cup {"output"},
                                 !.progress = set_status(@, 70),
                                 !.pc = IF store_requested(mp.args) THEN "store"
                                        ELSE "output"]
                  ELSE MainCaught(m, "process")
    /\ UNCHANGED <<storeVars, rp, pp, pq, xp>>

\* lines 195-205: store_product, then milestone 90; a failed store may have
\* uploaded the payload already, and may leave its catalog scratch file, which
\* tempfilename registered for the sweep
MainStore ==
    /\ mp.pc = "store"
    /\ \E ok \in BOOLEAN, sent \in BOOLEAN, scratch \in BOOLEAN :
         LET m == [mp EXCEPT !.stages = Append(@, "store")]
         IN mp' = IF ok
                  THEN [m EXCEPT !.remote = @ \cup {"payload"}
                                            \cup (IF mp.args.s3_catalog THEN {"catalog"}
                                                  ELSE {}),
                                 !.garbage = IF mp.args.s3_catalog THEN @ \cup {"scratch"}
                                             ELSE @,
                                 !.progress = set_status(@, 90),
                                 !.pc = "output"]
                  ELSE MainCaught(
                         [m EXCEPT !.remote = IF sent THEN @ \cup {"payload"} ELSE @,
                                   !.files = IF sent /\ scratch /\ mp.args.s3_catalog
                                             THEN @ \cup {"scratch"} ELSE @,
                                   !.garbage = IF sent /\ mp.args.s3_catalog
                                               THEN @ \cup {"scratch"} ELSE @],
                         "store")
    /\ UNCHANGED <<storeVars, rp, pp, pq, xp>>

\* lines 207-221: the body of the result; reading the file back may raise
MainOutput ==
    /\ mp.pc = "output"
    /\ \E read_ok \in BOOLEAN :
         mp' = IF mp.args.return_data /\ ~read_ok THEN MainCaught(mp, "output")
               ELSE [mp EXCEPT !.pc = "finally", !.result = "OK",
                               !.body = IF mp.args.return_data
                                        THEN [NoBody EXCEPT !.data = "bytes"]
                                        ELSE [data |-> "dict",
                                              uri |-> IF "payload" \in mp.remote
                                                      THEN "s3://" ELSE ""]]
    /\ UNCHANGED <<storeVars, rp, pp, pq, xp>>

\* lines 232-234: the sweep of the registered temporary files
MainFinally ==
    /\ mp.pc = "finally"
    /\ \E stuck \in SUBSET mp.garbage :
         mp' = [mp EXCEPT !.files = clean_temp_files(mp.files, mp.garbage, stuck),
                          !.garbage = {},
                          !.pc = IF mp.escaped # "none" THEN "done" ELSE "epilogo"]
    /\ UNCHANGED <<storeVars, rp, pp, pq, xp>>

\* lines 237-239: epilogo(t0, backend, jid) reads t0, which only prologo binds
MainEpilogo ==
    /\ mp.pc = "epilogo"
    /\ mp' = IF mp.t0 THEN [mp EXCEPT !.pc = "done"]
              ELSE [mp EXCEPT !.pc = "done", !.escaped = "UnboundLocalError",
                              !.result = "none"]
    /\ UNCHANGED <<storeVars, rp, pp, pq, xp>>

MainNext ==
    \/ MainPrologo
    \/ MainStatus
    \/ MainValidate
    \/ MainRetrieve
    \/ MainProcess
    \/ MainStore
    \/ MainOutput
    \/ MainFinally
    \/ MainEpilogo

SpecMain == MainInit /\ [][MainNext]_vars

(***************************************************************************)
(* Claims about main_python.                                               *)
(***************************************************************************)
\* C4: every invocation of main_python ends by returning a result whose status
\* is OK or ERROR; no exception or process exit leaves it.
C4_AlwaysAResult ==
    mp.pc = "done" => (mp.result \in {"OK", "ERROR"} /\ mp.escaped = "none")

\* C17: called with a valid product, an S3 bucket, s3_catalog=True and
\* return_data=False, when every step succeeds the result is OK and
\* result['body']['data'] is a string that starts with 's3://'.
C17_DataIsAnS3Uri ==
    (/\ mp.pc = "done" /\ ~mp.args.status /\ mp.escaped = "none"
     /\ mp.args.product = "SRI" /\ mp.args.s3_bucket # None /\ mp.args.s3_catalog
     /\ ~mp.args.return_data /\ mp.failed = "none")
    => /\ mp.result = "OK"
       /\ mp.body.data = "string"
       /\ mp.body.uri = "s3://"

\* the arguments with max_retry and retry_delay at their documented defaults
WithDefaults(args) == [args EXCEPT !.max_retry = SomeInt(3), !.retry_delay = SomeInt(60)]

\* C18: called without max_retry and retry_delay, with arguments that are valid
\* otherwise, main_python passes the validation: the omission alone gives no
\* ERROR result.
C18_DefaultsWhenOmitted ==
    (/\ mp.args.max_retry.none /\ mp.args.retry_delay.none
     /\ ~mp.args.status /\ mp.args.dt # "LAST"
     /\ args_validation(WithDefaults(mp.args), TRUE) = "ok"
     /\ mp.stages # <<>>)
    => (mp.failed # "validate" /\ mp.result # "ERROR")

IsPrefix(s, t) == Len(s) <= Len(t) /\ \A k \in DOMAIN s : s[k] = t[k]

\* C5: the stages run in the order validate, retrieve, process, store; once a
\* stage has raised no later stage is invoked and the result is ERROR; what the
\* stages had produced when it raised (the download, the output file, the
\* uploaded payload) is still there when main_python ends.
C5_StagesInOrderNoRollback ==
    /\ IsPrefix(mp.stages, MainStages)
    /\ mp.failed \in {"validate", "retrieve", "process", "store"}
         => /\ mp.stages # <<>> /\ mp.stages[Len(mp.stages)] = mp.failed
            /\ mp.result = "ERROR"
            /\ mp.pc \in {"finally", "epilogo", "done"}
            /\ mp.escaped = "none"
            /\ (mp.at_fail.files \ {"scratch"}) \subseteq mp.files
            /\ mp.at_fail.remote \subseteq mp.remote

\* the store stage raised after the payload was uploaded: the run is over, the
\* download, the output and the payload are in place
C5_Witness ==
    /\ mp.pc = "done" /\ mp.failed = "store" /\ mp.result = "ERROR"
    /\ {"download", "output"} \subseteq mp.files /\ "payload" \in mp.remote

\* the milestones of set_status, in the order of their calls
Milestones == <<10, 40, 70, 90>>

\* the stages of the run that completed
Completed ==
    IF mp.failed \in {"validate", "retrieve", "process", "store"}
    THEN Len(mp.stages) - 1 ELSE Len(mp.stages)

\* C29: the milestones reported so far are 10, 40, 70, 90 in this order, one for
\* each stage that completed and none for a stage that failed or was not
\* reached; 90 is reported only in a run that was given an S3 bucket.
C29_MilestonesFollowStages ==
    /\ IsPrefix(mp.progress, Milestones)
    /\ Len(mp.progress) = Completed
    /\ (\E k \in DOMAIN mp.progress : mp.progress[k] = 90) => mp.args.s3_bucket # None

\* a run with a bucket whose four stages completed, and one milestone each
C29_Witness ==
    /\ mp.pc = "done" /\ mp.result = "OK" /\ mp.args.s3_bucket # None
    /\ mp.progress = Milestones

\* C30: a run that reaches the validation with s3_catalog=True and no s3_bucket
\* fails there, invokes neither retrieve nor process nor store, and ends with
\* the ERROR result; in every run the store stage is invoked only with an S3
\* bucket that passed the validation.
C30_NoCatalogWithoutBucket ==
    /\ (mp.args.s3_catalog /\ mp.args.s3_bucket = None /\ mp.stages # <<>>)
         => /\ mp.stages = <<"validate">> /\ mp.failed = "validate"
            /\ mp.result = "ERROR"
            /\ mp.remote = {}
    /\ (mp.pc = "store" \/ \E k \in DOMAIN mp.stages : mp.stages[k] = "store")
         => /\ mp.args.s3_bucket # None /\ iss3(mp.args.s3_bucket)
            /\ \E last_ok \in BOOLEAN : args_validation(mp.args, last_ok) = "ok"
    /\ "catalog" \in mp.remote => ("payload" \in mp.remote /\ mp.args.s3_bucket # None)

\* the registration was asked for without a bucket, for a product that exists:
\* the run is over with the ERROR of the validation
C30_Witness ==
    /\ mp.pc = "done" /\ mp.args.s3_catalog /\ mp.args.s3_bucket = None
    /\ mp.args.product = "SRI" /\ mp.args.dt = None
    /\ ~mp.args.max_retry.none /\ ~mp.args.retry_delay.none
    /\ mp.stages = <<"validate">> /\ mp.result = "ERROR"

\* the temporary files of a run: the artifact that download_data wrote (and what
\* it extracted) under tempdir(), and the scratch copy of the catalog
TempFiles == {"download", "scratch"}

\* C22: every temporary file that exists when main_python reaches its cleanup is
\* registered in the garbage set, and once the cleanup has run the downloaded
\* artifact is no longer in the temporary directory, on the success path and on
\* the error paths.
C22_TemporaryFilesSwept ==
    /\ mp.pc = "finally" => (mp.files \cap TempFiles) \subseteq mp.garbage
    /\ mp.pc \in {"epilogo", "done"} => "download" \notin mp.files

(***************************************************************************)
(* DPCRetrieverProcessor (dpc_retriever_process.py): argument_validation,  *)
(* retrieve_data and execute.  The request is the record                   *)
(*   [token, debug, product, lat_range, long_range, time_range,            *)
(*    bucket_destination]                                                  *)
(* with a range given as None, "ok" or "bad", and a time range as None,    *)
(* "bad" (not ISO), "old" (older than 48 hours) or "recent".               *)
(***************************************************************************)
\* the status values of utils.status_exception.StatusException
StatusException == [DENIED |-> "denied", INVALID |-> "invalid", ERROR |-> "error"]

\* INT_API_TOKEN, with its default
INT_API_TOKEN == "token"

ExecuteInputs ==
    [token : {None, "token", "wrong"},
     debug : {"False", "True", "yes"},
     product : {None, "SRI", "XXX"},
     lat_range : {None, "ok", "bad"},
     long_range : {None, "ok", "bad"},
     time_range : {None, "bad", "old", "recent"},
     bucket_destination : {None, "s3://saferplaces.co", "saferplaces.co"}]

\* argument_validation: "ok", or the status of the StatusException it raises
argument_validation(data) ==
    IF data.token = None \/ data.token # INT_API_TOKEN THEN StatusException.DENIED
    ELSE IF data.debug \notin {"False", "True"} THEN StatusException.INVALID
    ELSE IF data.product = None THEN StatusException.INVALID
    ELSE IF product_by_code(data.product) = None THEN StatusException.INVALID
    ELSE IF data.lat_range = "bad" THEN StatusException.INVALID
    ELSE IF data.long_range = "bad" THEN StatusException.INVALID
    ELSE IF data.time_range = None THEN StatusException.INVALID
    ELSE IF data.time_range = "bad" THEN StatusException.INVALID
    ELSE IF data.time_range = "old" THEN StatusException.INVALID
    ELSE IF data.bucket_destination \notin {None, "s3://saferplaces.co"}
    THEN StatusException.INVALID
    ELSE "ok"

\* the keyword arguments of the main_python call of retrieve_data: dt is an
\* element of pd.date_range(...).to_list(), a pd.Timestamp and not a string
retrieve_data_kwargs(code) ==
    [product |-> code, dt |-> "Timestamp", s3_bucket |-> None, s3_catalog |-> FALSE,
     max_retry |-> SomeInt(0), retry_delay |-> SomeInt(0), return_data |-> FALSE,
     status |-> FALSE]

\* main_python as retrieve_data calls it: "OK" or "ERROR", the status of the
\* result, or "raise" (epilogo reads t0, which a failed prologo left unbound)
main_python(kwargs, prologo_ok) ==
    IF ~prologo_ok THEN "raise"
    ELSE IF args_validation(kwargs, TRUE) = "raise" THEN "ERROR"
    ELSE "OK"

\* the functions utils/filesystem.py defines
filesystem_functions ==
    {"collect_garbage_temp_file", "now", "total_seconds_from", "normpath", "juststem",
     "justpath", "justfname", "justext", "forceext", "isfile", "israster", "isvector",
     "iss3", "mkdirs", "tempdir", "tempfilename", "clean_temp_files", "md5sum", "md5text"}

NoOutputs == [status |-> "none", message |-> FALSE, error |-> FALSE]

\* lines 423-427: except StatusException, the payload has 'status' and 'message'
except_StatusException(x, status) ==
    [x EXCEPT !.pc = "finally",
              !.failure = IF status = StatusException.DENIED THEN "token" ELSE "args",
              !.outputs = [status |-> status, message |-> TRUE, error |-> FALSE]]

\* lines 428-433: except Exception, the payload has 'status' and 'error', and
\* ProcessorExecuteError is raised
except_Exception(x, class) ==
    [x EXCEPT !.pc = "finally", !.failure = class, !.pending = "ProcessorExecuteError",
              !.outputs = [status |-> StatusException.ERROR, message |-> FALSE,
                           error |-> TRUE]]

ExecuteInit ==
    /\ xp \in [pc : {"validate"}, in : ExecuteInputs, outputs : {NoOutputs},
                failure : {"none"}, pending : {"none"}, end : {"none"}]
    /\ st = [p \in Procs |-> IdleFrame]
    /\ remote_data = {}
    /\ remote_catalog = <<>>
    /\ local_files = <<>>
    /\ locks = {}
    /\ now = 0
    /\ calls = 0
    /\ pq = None
    /\ rp = None
    /\ pp = None
    /\ mp = None

\* lines 369-371
ExecuteValidate ==
    /\ xp.pc = "validate"
    /\ xp' = IF argument_validation(xp.in) = "ok" THEN [xp EXCEPT !.pc = "retrieve"]
              ELSE except_StatusException(xp, argument_validation(xp.in))
    /\ UNCHANGED <<storeVars, rp, pp, mp, pq>>

\* lines 374-381 and retrieve_data, lines 285-311, up to the first timestamp:
\* the bbox is built by subscripting the two ranges, main_python is called, and
\* ['body']['data']['filename'] is read from its result, whose body holds
\* 'data' only when the status is OK
ExecuteRetrieve ==
    /\ xp.pc = "retrieve"
    /\ \E prologo_ok \in BOOLEAN :
         LET r == main_python(retrieve_data_kwargs(xp.in.product), prologo_ok)
         IN xp' = IF xp.in.lat_range = None \/ xp.in.long_range = None
                  THEN except_Exception(xp, "TypeError")
                  ELSE IF r = "raise" THEN except_Exception(xp, "UnboundLocalError")
                  ELSE IF r = "ERROR" THEN except_Exception(xp, "KeyError")
                  ELSE [xp EXCEPT !.pc = "build_dataset"]
    /\ UNCHANGED <<storeVars, rp, pp, mp, pq>>

\* lines 434-438: the finally clause calls filesystem.garbage_folders; an
\* attribute the module does not have raises AttributeError, which replaces the
\* exception in flight; with nothing in flight, execute returns
ExecuteFinally ==
    /\ xp.pc = "finally"
    /\ LET pending == IF "garbage_folders" \in filesystem_functions THEN xp.pending
                      ELSE "AttributeError"
       IN xp' = [xp EXCEPT !.pc = "done", !.pending = pending,
                           !.end = IF pending = "none" THEN "returned" ELSE "raised"]
    /\ UNCHANGED <<storeVars, rp, pp, mp, pq>>

ExecuteNext == ExecuteValidate \/ ExecuteRetrieve \/ ExecuteFinally

SpecExecute == ExecuteInit /\ [][ExecuteNext]_vars

\* C26: a failed run of execute returns a payload: status 'denied' for a wrong
\* token, 'invalid' for bad arguments, 'error' for every other failure (a failed
\* main_python run among them), with a message; execute does not raise.
C26_FailedRunReturnsStatus ==
    (xp.pc = "done" /\ xp.failure # "none")
    => /\ xp.end = "returned"
       /\ xp.outputs.message
       /\ xp.outputs.status = (IF xp.failure = "token" THEN "denied"
                               ELSE IF xp.failure = "args" THEN "invalid"
                               ELSE "error")

(***************************************************************************)
(* Claims about store_product.                                             *)
(***************************************************************************)
Holds(content, record) == \E i \in DOMAIN content : content[i] = record

RecordOf(f) == catalog_object(f.code, f.date_time, f.uri)

\* C1: when two processes register two different timestamps of one product and
\* partition day concurrently, both downloads work and both calls return, the
\* catalog object holds both records (no lost update).
C1_NoLostUpdate ==
    \A p, q \in Procs :
        ( /\ p # q
          /\ st[p].pc = "returned" /\ st[q].pc = "returned"
          /\ st[p].register_catalog /\ st[q].register_catalog
          /\ st[p].avaliability_uri = st[q].avaliability_uri
          /\ st[p].date_time # st[q].date_time
          /\ st[p].dl = "ok" /\ st[q].dl = "ok" )
        => /\ Holds(CatalogContent(st[p].avaliability_uri), RecordOf(st[p]))
           /\ Holds(CatalogContent(st[p].avaliability_uri), RecordOf(st[q]))

\* C20: at most one process at a time is between its catalog download and its
\* catalog upload for one catalog object; the lock a call holds is identified
\* by the catalog object's key, so that two calls on one partition hold, one
\* after the other, the same lock.
C20_LockPerPartition ==
    \A p, q \in Procs :
        (p # q /\ st[p].avaliability_uri = st[q].avaliability_uri)
        => /\ ~(st[p].pc = "upload" /\ st[q].pc = "upload")
           /\ (st[p].pc \in {"download", "upload"} /\ st[q].pc \in {"lock", "download", "upload"})
                => lock_name(st[p].avaliable_filepath) = lock_name(st[q].avaliable_filepath)

\* C24: two calls of store_product for (product, timestamp) pairs that differ
\* compute payload keys that differ.
C24_DistinctPairsDistinctKeys ==
    \A p, q \in Procs :
        (/\ st[p].pc # "idle" /\ st[q].pc # "idle"
         /\ <<st[p].code, st[p].date_time>> # <<st[q].code, st[q].date_time>>)
        => st[p].uri # st[q].uri

\* C21: the catalog lock is held from before the catalog download until after
\* the catalog upload attempt and is released on every exit path: the locks held
\* are exactly those of the calls that are between acquiring and leaving, and a
\* call that has returned or raised holds none.
C21_LockHeldThenReleased ==
    /\ locks = {lock_name(st[p].avaliable_filepath) :
                   p \in {q \in Procs : st[q].pc \in {"download", "upload"}}}
    /\ (\A p \in Procs : st[p].pc \in {"idle", "returned", "raised"}) => locks = {}

\* a call whose catalog upload failed, or whose download or append raised, has
\* raised and no lock is held
C21_Witness ==
    /\ st[1].pc = "raised" /\ st[1].err.kind \in {"availability", "download", "append", "upload"}
    /\ st[2].pc \in {"idle", "returned", "raised"}
    /\ locks = {}

\* C6: a registering call that overlaps no other call and returns leaves the
\* catalog object equal to its content before the call followed by exactly one
\* new record, whatever the download did.
C6_AppendOnly ==
    \A p \in Procs :
        (st[p].pc = "returned" /\ st[p].register_catalog /\ ~st[p].overlapped)
        => st[p].after = Append(st[p].before, RecordOf(st[p]))

\* the payload stage of the call of process 1 is over and did not raise
PayloadStored(f) == f.pc # "idle" /\ ~(f.pc = "raised" /\ f.err.kind = "storing")

AllFiles(uri) == {uri} \cup {forceext(uri, additional_exts[i]) : i \in DOMAIN additional_exts}

Records(content) == {content[i] : i \in DOMAIN content}

\* the payload a record points to is in the bucket, with its sidecars if it is a
\* shapefile
PayloadOf(record) ==
    IF record.uri.ext = "shp" THEN AllFiles(record.uri) ELSE {record.uri}

\* C28: every record of a catalog object, and of a catalog scratch file, carries
\* the URI of a payload that is in the bucket in full (a shapefile with its four
\* sidecars); a call is in its catalog part only after all its payload uploads
\* worked; a call whose payload upload failed has downloaded, appended and
\* uploaded no catalog.
C28_CatalogOnlyAfterPayload ==
    /\ \A u \in DOMAIN remote_catalog : \A r \in Records(remote_catalog[u]) :
          PayloadOf(r) \subseteq remote_data
    /\ \A f \in DOMAIN local_files : \A r \in Records(local_files[f]) :
          PayloadOf(r) \subseteq remote_data
    /\ \A p \in Procs :
          /\ (InCatalog(st[p]) \/ st[p].dl # "none" \/ st[p].after # <<>>)
                => /\ st[p].failed \cap {[path |-> st[p].data_filepath, uri |-> st[p].uri]} = {}
                   /\ PayloadOf([uri |-> st[p].uri]) \subseteq st[p].uploaded
          /\ (st[p].pc = "raised" /\ st[p].err.kind = "storing")
                => /\ st[p].dl = "none" /\ st[p].after = <<>>
                   /\ st[p].avaliable_filepath = NoPath
                   /\ CatalogContent(catalog_uri(Bucket,
                          hive_path(st[p].date_time.year, st[p].date_time.month,
                                    st[p].date_time.day, st[p].code),
                          st[p].code)) = st[p].before

\* a shapefile was stored and registered: its record is in the catalog object and
\* the .shp and the four sidecars are in the bucket
C28_Witness ==
    /\ st[1].pc = "returned" /\ st[1].register_catalog
    /\ justext(st[1].data_filepath) = "shp"
    /\ st[1].avaliability_uri \in DOMAIN remote_catalog
    /\ RecordOf(st[1]) \in Records(remote_catalog[st[1].avaliability_uri])
    /\ AllFiles(st[1].uri) \subseteq remote_data

\* C8 as claimed: the error of a failed upload names the local path and the
\* target URI of an upload that actually failed.
C8_ErrorNamesFailedUpload ==
    LET f == st[1]
    IN (f.pc = "raised" /\ f.err.kind \in {"storing", "availability"})
       => \E u \in f.failed :
              f.err.has_path /\ f.err.path = u.path /\ f.err.uri = u.uri

\* C8 as amended: a payload failure (main file or sidecar) is reported with the
\* main payload's local path and URI, a catalog failure with the catalog URI and
\* no local path; the two kinds of error differ.
C8_ErrorNamesPayloadOrCatalog ==
    LET f == st[1]
    IN /\ (f.pc = "raised" /\ \E u \in f.failed : u.uri \in AllFiles(f.uri))
            => /\ f.err.kind = "storing"
               /\ f.err.has_path /\ f.err.path = f.data_filepath /\ f.err.uri = f.uri
       /\ (f.pc = "raised" /\ \E u \in f.failed : u.uri = f.avaliability_uri)
            => /\ f.err.kind = "availability"
               /\ ~f.err.has_path /\ f.err.uri = f.avaliability_uri
               /\ f.err # payload_error(f.data_filepath, f.uri)

\* a call that raised because a sidecar alone failed
C8_Witness ==
    /\ st[1].pc = "raised" /\ st[1].err.kind = "storing"
    /\ st[1].failed # {}
    /\ \A u \in st[1].failed : u.uri # st[1].uri

====
